---------------------------- MODULE Spec2Model ----------------------------
(***************************************************************************)
(* Princess WM: the session state machine, the frame loop driver and the   *)
(* patch sampler of the nine App components found in src/.                 *)
(*                                                                         *)
(* The repository holds nine revisions of one React component.  The model  *)
(* carries which revision runs in the variable `variant` and translates    *)
(* every handler of every revision.                                        *)
(*                                                                         *)
(* Units.  JavaScript strings are sequences of one-character strings.      *)
(* Pixel coordinates are exact rationals kept in hundredths of a pixel     *)
(* (every catalog fraction has two decimals), so 30 px is 3000.            *)
(***************************************************************************)
EXTENDS Integers, Sequences, FiniteSets, Bags, TLC

VARIABLES
    variant,        \* which revision of App runs
    mounted,        \* the component is mounted
    file,           \* useState file: Null or a File
    videoUrl,       \* useState videoUrl: a string
    isProcessing,   \* useState isProcessing
    progress,       \* useState progress
    statusMessage,  \* useState statusMessage
    resultVideo,    \* useState resultVideo: Null or a string
    error,          \* useState error: Null or a message
    metadata,       \* useState detectionMetadata: Null or a record
    compare,        \* useState compareMode / showOriginal
    proc,           \* the handleProcess call in flight (its position and closure)
    intervals,      \* part2b: the setInterval timers armed, in the order they are due
    doneTimer,      \* the pending setTimeout(() => setIsProcessing(false))
    created,        \* number of URL.createObjectURL calls so far
    live,           \* object URLs created and not revoked
    revokes,        \* bag of the arguments of URL.revokeObjectURL
    chains,         \* the pending requestAnimationFrame callbacks
    video,          \* the <video> element
    canvas,         \* the <canvas> element (the frame surface)
    runs,           \* number of staged sequences started
    last,           \* the last event handled (history)
    probe           \* input and output of the patch sampler (sampler specification)

vars == << variant, mounted, file, videoUrl, isProcessing, progress, statusMessage,
           resultVideo, error, metadata, compare, proc, intervals, doneTimer, created,
           live, revokes, chains, video, canvas, runs, last, probe >>

sessionVars == << file, videoUrl, isProcessing, progress, statusMessage,
                  resultVideo, error, metadata, compare >>

-----------------------------------------------------------------------------
(* Bounds of the model *)

MaxRuns == 2        \* staged sequences started in one behaviour
MaxChains == 2      \* requestAnimationFrame callbacks pending at once
MaxDim == 12        \* frame widths and heights 1..MaxDim tried by the sampler
MaxLag == 1         \* interval ticks between the start of a call and a re-entering one

\* a nullable value is Null or Some(x); Null is JavaScript's null / undefined
Null == << >>
Some(x) == << x >>

-----------------------------------------------------------------------------
(* Strings *)

str_blob == << "b", "l", "o", "b", ":" >>
str_tiktok == << "t", "i", "k", "t", "o", "k" >>
str_capcut == << "c", "a", "p", "c", "u", "t" >>
str_sora == << "s", "o", "r", "a" >>
str_stock == << "s", "t", "o", "c", "k" >>
str_shutter == << "s", "h", "u", "t", "t", "e", "r" >>
str_getty == << "g", "e", "t", "t", "y" >>

\* String.prototype.startsWith
startsWith(s, p) ==
    /\ Len(s) >= Len(p)
    /\ SubSeq(s, 1, Len(p)) = p

\* String.prototype.includes
includes(s, sub) ==
    \E i \in 1..(Len(s) - Len(sub) + 1) : SubSeq(s, i, i + Len(sub) - 1) = sub

\* the capital letters and their lower-case forms, position by position
UpperCase == << "A", "B", "C", "D", "E", "F", "G", "H", "I", "J", "K", "L", "M",
               "N", "O", "P", "Q", "R", "S", "T", "U", "V", "W", "X", "Y", "Z" >>
LowerCase == << "a", "b", "c", "d", "e", "f", "g", "h", "i", "j", "k", "l", "m",
               "n", "o", "p", "q", "r", "s", "t", "u", "v", "w", "x", "y", "z" >>

\* String.prototype.toLowerCase on one character: every capital letter is
\* replaced by its lower-case form, every other character is kept
lowerChar(c) ==
    IF \E i \in DOMAIN UpperCase : UpperCase[i] = c
    THEN LowerCase[CHOOSE i \in DOMAIN UpperCase : UpperCase[i] = c]
    ELSE c

\* String.prototype.toLowerCase
toLowerCase(s) == [i \in 1..Len(s) |-> lowerChar(s[i])]

-----------------------------------------------------------------------------
(* The revisions *)

Variants == { "app1", "app2", "app3", "app4",
              "part0", "part1", "part2a", "part2b", "part3" }

\* revisions with a canvas and a requestAnimationFrame loop
HasLoop(v) == v \in { "app2", "app3", "part1", "part2a", "part3" }

\* revisions with a compare-original toggle read by processFrame
HasCompare(v) == v \in { "app2", "part2a" }

\* revisions that await ai.models.generateContent
HasCollab(v) == v \in { "app3", "part0", "part1", "part2a", "part3" }

\* revisions with a statusMessage state
HasStatus(v) == v \notin { "app1", "app4", "part2b" }

\* revisions whose effect cleanup revokes the blob URL
HasCleanup(v) == v \notin { "app4", "part2b" }

\* revisions whose file input has the inline onChange handler
InlineFileChange(v) == v \in { "app2", "part2a" }

\* revisions whose <video> has the loop attribute (it never ends)
VideoLoops(v) == v \in { "app2", "part2a" }

\* revisions whose process button is disabled without a source
ProcessDisabledWithoutSource(v) == v = "app2"

\* delay of the setTimeout in handleProcess's finally block; 0: none, the
\* flag is cleared synchronously
DoneDelay(v) ==
    CASE v = "app3" -> 300
      [] v = "part0" -> 500
      [] v = "part1" -> 400
      [] v = "part2a" -> 500
      [] v = "part3" -> 500
      [] OTHER -> 0

-----------------------------------------------------------------------------
(* Region catalog and patch sampler (inside processFrame) *)

Max(a, b) == IF a >= b THEN a ELSE b
Min(a, b) == IF a <= b THEN a ELSE b

\* a catalog entry; x, y, w, h are the fractions in hundredths
Zone(x, y, w, h, type) == [x |-> x, y |-> y, w |-> w, h |-> h, type |-> type]

\* the zones / masterZones array literal of each revision
zones(v) ==
    CASE v = "app2" ->
            << Zone(1, 1, 28, 12, "logo"), Zone(71, 1, 28, 12, "logo"),
               Zone(71, 85, 28, 14, "bounce"), Zone(1, 85, 28, 14, "bounce"),
               Zone(20, 88, 60, 10, "sora"), Zone(10, 40, 80, 20, "stock") >>
      [] v = "app3" ->
            << Zone(1, 1, 20, 10, "blur"), Zone(78, 1, 21, 10, "blur"),
               Zone(74, 84, 25, 14, "blur"), Zone(1, 84, 20, 12, "blur") >>
      [] v = "part1" ->
            << Zone(1, 1, 18, 12, "blur"), Zone(78, 1, 21, 12, "blur"),
               Zone(74, 82, 25, 16, "blur"), Zone(1, 82, 18, 14, "blur") >>
      [] v = "part2a" ->
            << Zone(1, 1, 22, 12, "corner"), Zone(77, 1, 22, 12, "corner"),
               Zone(76, 80, 23, 18, "corner"), Zone(1, 80, 22, 18, "corner"),
               Zone(35, 88, 30, 9, "center") >>
      [] v = "part3" ->
            << Zone(2, 2, 16, 8, "heal"), Zone(80, 2, 18, 8, "heal"),
               Zone(75, 85, 22, 12, "heal"), Zone(2, 85, 18, 10, "heal") >>
      [] OTHER -> << >>

\* the same rectangle with the fractions of the position applied to the
\* wrong axes
zoneRect_transposed(z, W, H) == [x |-> z.x * H, y |-> z.y * W, w |-> z.w * W, h |-> z.h * H]

\* zX, zY, zW, zH: the zone's pixel rectangle in a W x H canvas (hundredths of a pixel)
zoneRect(z, W, H) == [x |-> z.x * W, y |-> z.y * H, w |-> z.w * W, h |-> z.h * H]

\* the same computation with the two branches of the 'logo' test exchanged
pixelSteal_swapped(z, W, H) ==
    LET r == zoneRect(z, W, H)
        margin == 3000
        sX0 == CASE z.type = "logo" ->
                      IF 2 * r.x < 100 * W THEN r.x - r.w - margin ELSE r.x + r.w + margin
                 [] z.type \in { "bounce", "sora" } -> r.x
                 [] OTHER -> r.x + 1000
        sY0 == CASE z.type = "logo" -> r.y
                 [] z.type = "bounce" ->
                      IF 2 * r.y < 100 * H THEN r.y + r.h + margin ELSE r.y - r.h - margin
                 [] z.type = "sora" -> r.y - r.h - margin
                 [] OTHER -> r.y + 5000
    IN  [ x |-> Max(0, Min(100 * W - r.w, sX0)),
          y |-> Max(0, Min(100 * H - r.h, sY0)),
          w |-> r.w, h |-> r.h ]

\* app2: the "pixel stealing" source rectangle, margin 30, clamped to [0, size - zone]
pixelSteal(z, W, H) ==
    LET r == zoneRect(z, W, H)
        margin == 3000
        sX0 == CASE z.type = "logo" ->
                      IF 2 * r.x < 100 * W THEN r.x + r.w + margin ELSE r.x - r.w - margin
                 [] z.type \in { "bounce", "sora" } -> r.x
                 [] OTHER -> r.x + 1000
        sY0 == CASE z.type = "logo" -> r.y
                 [] z.type = "bounce" ->
                      IF 2 * r.y < 100 * H THEN r.y + r.h + margin ELSE r.y - r.h - margin
                 [] z.type = "sora" -> r.y - r.h - margin
                 [] OTHER -> r.y + 5000
    IN  [ x |-> Max(0, Min(100 * W - r.w, sX0)),
          y |-> Max(0, Min(100 * H - r.h, sY0)),
          w |-> r.w, h |-> r.h ]

\* part2a: the "Poisson" patch rectangle, drift 60, clamped to [5, size - zone - 5]
poissonPatch(z, W, H) ==
    LET r == zoneRect(z, W, H)
        drift == 6000
        patchX0 == IF z.x < 50 THEN r.x + (r.w + drift) ELSE r.x - (r.w + drift)
        patchY0 == IF z.y > 50 THEN r.y - (r.h + drift) ELSE r.y + (r.h + drift)
    IN  [ x |-> Max(500, Min(100 * W - r.w - 500, patchX0)),
          y |-> Max(500, Min(100 * H - r.h - 500, patchY0)),
          w |-> r.w, h |-> r.h ]

\* part3: the two "heal" source rectangles, sampleOffset 15 to the left and above
healSources(z, W, H) ==
    LET r == zoneRect(z, W, H)
        sampleOffset == 1500
    IN  << [x |-> r.x - sampleOffset, y |-> r.y, w |-> r.w, h |-> r.h],
           [x |-> r.x, y |-> r.y - sampleOffset, w |-> r.w, h |-> r.h] >>

\* the zone is sampled from a horizontally shifted rectangle: type 'logo' in
\* app2, every zone in part2a
horizontalHint(v, z) == (v = "app2" /\ z.type = "logo") \/ v = "part2a"

\* the zone is sampled from a vertically shifted rectangle: types 'bounce' and
\* 'sora' in app2, every zone in part2a
verticalHint(v, z) == (v = "app2" /\ z.type \in { "bounce", "sora" }) \/ v = "part2a"

\* the fixed gap between zone and sample: margin (app2), drift (part2a)
gap(v) == IF v = "app2" THEN 3000 ELSE 6000

\* the source rectangles the drawImage(canvas, sx, sy, sw, sh, ...) calls of one
\* zone read, in call order without repetition
sampleSource(v, z, W, H) ==
    CASE v = "app2" -> << pixelSteal(z, W, H) >>
      [] v = "part2a" -> << poissonPatch(z, W, H) >>
      [] v = "part3" -> healSources(z, W, H)
      [] OTHER -> << zoneRect(z, W, H) >>

\* revisions whose compositor clips to ctx.roundRect(zX, zY, zW, zH, radius)
HasClip(v) == v \in { "app2", "part2a" }

\* the radius given to roundRect (hundredths of a pixel); 0: no clip
clipRadius(v) ==
    CASE v = "app2" -> 2000
      [] v = "part2a" -> 1000
      [] OTHER -> 0

\* the blur(..px) of ctx.filter at each drawImage(canvas, ...) of one zone
blurPasses(v) ==
    CASE v = "app2" -> << 400, 1500 >>
      [] v = "app3" -> << 1800 >>
      [] v = "part1" -> << 2000 >>
      [] v = "part2a" -> << 400, 2500 >>
      [] v = "part3" -> << 1200, 1200 >>
      [] OTHER -> << >>

\* the side of the squares of the grain loop's fillRect
grainSize(v) ==
    CASE v = "part1" -> 200
      [] v = "part2a" -> 120
      [] OTHER -> 100

\* the clip region of a zone: the rounded rectangle, its radii scaled down to
\* fit as roundRect does; without a clip, the zone's own rectangle
mask(v, z, W, H) ==
    LET r == zoneRect(z, W, H)
    IN  [rect |-> r, radius |-> Min(clipRadius(v), Min(r.w, r.h) \div 2)]

\* the values Math.random() * len takes, in [0, len): three of them
GrainChoices == { 0, 1, 2 }
grainOffset(g, len) == CASE g = 0 -> 0 [] g = 1 -> len \div 2 [] OTHER -> len - 1

\* how far a drawImage under ctx.filter = 'blur(d px)' paints beyond its
\* destination: d is the standard deviation of the Gaussian, which fades out
\* at three times that distance
blurReach(d) == 3 * d

\* the rectangle r grown by d on every side
expand(r, d) == [x |-> r.x - d, y |-> r.y - d, w |-> r.w + 2 * d, h |-> r.h + 2 * d]

\* the canvas operations of one zone between ctx.save() and ctx.restore(): each
\* drawImage pass (the rectangle it reads, the rectangle it paints) and one
\* fillRect of the grain loop at the random offsets chosen by gx, gy; clipped
\* tells whether the clip region is in force
compositorOps(v, z, W, H, gx, gy) ==
    LET r == zoneRect(z, W, H)
        src == sampleSource(v, z, W, H)
        n == Len(blurPasses(v))
    IN  [j \in 1..(n + 1) |->
            IF j <= n
            THEN [read |-> << src[Min(j, Len(src))] >>,
                  write |-> expand(r, blurReach(blurPasses(v)[j])),
                  clipped |-> HasClip(v)]
            ELSE [read |-> << >>,
                  write |-> [x |-> r.x + grainOffset(gx, r.w),
                             y |-> r.y + grainOffset(gy, r.h),
                             w |-> grainSize(v), h |-> grainSize(v)],
                  clipped |-> HasClip(v)]]

\* two rectangles share some area
Intersects(a, b) ==
    /\ a.x < b.x + b.w /\ b.x < a.x + a.w
    /\ a.y < b.y + b.h /\ b.y < a.y + a.h

\* the rectangles a zone's operations paint (under a clip: nothing outside
\* the zone) and the rectangles of the canvas they read
paints(v, z, W, H, gx, gy) ==
    { IF HasClip(v) THEN zoneRect(z, W, H) ELSE compositorOps(v, z, W, H, gx, gy)[j].write :
        j \in DOMAIN compositorOps(v, z, W, H, gx, gy) }
reads(v, z, W, H, gx, gy) ==
    { compositorOps(v, z, W, H, gx, gy)[j].read[1] :
        j \in { k \in DOMAIN compositorOps(v, z, W, H, gx, gy) :
                   compositorOps(v, z, W, H, gx, gy)[k].read /= << >> } }

\* zone j paints pixels that zone k paints, or that zone k's
\* drawImage(canvas, ...) reads
interferes(v, W, H, gx, gy, j, k) ==
    LET zj == zones(v)[j]
        zk == zones(v)[k]
    IN  \E a \in paints(v, zj, W, H, gx, gy) :
            \E b \in paints(v, zk, W, H, gx, gy) \cup reads(v, zk, W, H, gx, gy) :
                Intersects(a, b)

\* the surface after zones.forEach took the zones in the given order.  Every
\* zone reads the canvas and blends onto it, so what a pixel ends up holding is
\* fixed by the order of the paints it depends on: the surface is given as the
\* pairs << j, k >> of zones, one painting what the other paints or reads,
\* with j composited before k.
compositeAll(v, W, H, gx, gy, order) ==
    LET touching == { ab \in (DOMAIN order) \X (DOMAIN order) :
                        /\ ab[1] < ab[2]
                        /\ \/ interferes(v, W, H, gx, gy, order[ab[1]], order[ab[2]])
                           \/ interferes(v, W, H, gx, gy, order[ab[2]], order[ab[1]]) }
    IN  { << order[ab[1]], order[ab[2]] >> : ab \in touching }

\* the catalog order with zone i moved to the front
zoneFirst(v, i) ==
    << i >> \o SelectSeq([k \in 1..Len(zones(v)) |-> k], LAMBDA k : k /= i)

-----------------------------------------------------------------------------
(* Inputs *)

\* the File objects the user can pick
Files == { [name |-> << "c", "l", "i", "p" >>],
           [name |-> << "T", "i", "k", "T", "o", "k" >>] }

\* the texts the user can put in the link field ("" is the cleared field)
Urls == { << "h", ":", "s", "o", "r", "a" >>,
          << "b", "l", "o", "b", ":", "u" >> }

\* native sizes of the media the <video> can load
Sizes == { << 1920, 1080 >>, << 300, 150 >> }

FileInputs == { Some(f) : f \in Files } \cup { Null }

\* truthiness of a string
truthy(str) == str /= << >>

-----------------------------------------------------------------------------
(* Object URLs *)

\* URL.createObjectURL: the n-th call returns a fresh "blob:<n>"
createObjectURL(n) == str_blob \o << ToString(n) >>

\* URL.revokeObjectURL on the heap hp = [live, revokes]
revokeObjectURL(hp, u) ==
    [live |-> hp.live \ {u}, revokes |-> hp.revokes (+) SetToBag({u})]

\* the same statement with the prefix test inverted
revokeIfBlob_inverted(hp, r) ==
    IF r /= Null /\ truthy(r[1]) /\ ~startsWith(r[1], str_blob)
    THEN revokeObjectURL(hp, r[1]) ELSE hp

\* if (resultVideo && resultVideo.startsWith('blob:')) URL.revokeObjectURL(resultVideo)
revokeIfBlob(hp, r) ==
    IF r /= Null /\ truthy(r[1]) /\ startsWith(r[1], str_blob)
    THEN revokeObjectURL(hp, r[1]) ELSE hp

-----------------------------------------------------------------------------
(* requestAnimationFrame callbacks.  A pending callback is the processFrame  *)
(* closure it will call (the compare flag that closure captured) and whether *)
(* requestRef.current holds its id.  chains[k] counts the pending callbacks  *)
(* of kind k = <<captured compare, is requestRef.current>>.                  *)

ChainKinds == BOOLEAN \X BOOLEAN

NoChains == [k \in ChainKinds |-> 0]

pending(ch) == ch[<<FALSE, FALSE>>] + ch[<<FALSE, TRUE>>]
                 + ch[<<TRUE, FALSE>>] + ch[<<TRUE, TRUE>>]

\* cancelAnimationFrame(requestRef.current)
cancelAnimationFrame(ch) == [k \in ChainKinds |-> IF k[2] THEN 0 ELSE ch[k]]

\* requestRef.current = requestAnimationFrame(processFrame), processFrame the
\* closure that captured cmp: the ids held before are overwritten
requestAnimationFrame(ch, cmp) ==
    [k \in ChainKinds |->
        IF k[2] THEN (IF k[1] = cmp THEN 1 ELSE 0)
        ELSE ch[k] + ch[<<k[1], TRUE>>]]

\* the callback of kind k has been taken off the queue to run
dequeue(ch, k) == [ch EXCEPT ![k] = ch[k] - 1]

-----------------------------------------------------------------------------
(* handleProcess: the staged sequence *)

\* the placeholder result of app4 and part2b
str_placeholder ==
    << "h", "t", "t", "p", "s", ":", "/", "/", "s", "a", "m", "p", "l", "e",
       "-", "v", "i", "d", "e", "o", "s", ".", "c", "o", "m", "/", "v", "i",
       "d", "e", "o", "3", "2", "1", "/", "m", "p", "4", "/", "7", "2", "0",
       "/", "b", "i", "g", "_", "b", "u", "c", "k", "_", "b", "u", "n", "n",
       "y", "_", "7", "2", "0", "p", "_", "1", "m", "b", ".", "m", "p", "4" >>

\* the statements of the try block after `new GoogleGenAI`, as operations
\* the code point of the trade-mark sign (U+2122) in the status text of part3,
\* a character a string of this module cannot hold: the text is written as
\* the pieces around it with the code point between them
TradeMarkSign == 8482

St(m) == [op |-> "status", m |-> m]
StT(pre, post) == [op |-> "statusT", pre |-> pre, post |-> post]
Pr(p) == [op |-> "progress", p |-> p]
Wait(ms) == [op |-> "wait", ms |-> ms]
Sim(from, to, dur) == [op |-> "sim", from |-> from, to |-> to, dur |-> dur]
Collab == [op |-> "collab"]
Result == [op |-> "result"]
Meta == [op |-> "meta"]

\* the same loop with the bound i < steps
stepLoop_short(steps, ms) ==
    [j \in 1..(2 * steps) |->
        IF j % 2 = 1 THEN Wait(ms)
        ELSE Pr((((j \div 2) - 1) * 100) \div steps)]

\* the same loop without the division by steps
stepLoop_unscaled(steps, ms) ==
    [j \in 1..(2 * (steps + 1)) |->
        IF j % 2 = 1 THEN Wait(ms)
        ELSE Pr(((j \div 2) - 1) * 100)]

\* for (let i = 0; i <= steps; i++) { await timeout(ms); setProgress(Math.floor((i / steps) * 100)) }
stepLoop(steps, ms) ==
    [j \in 1..(2 * (steps + 1)) |->
        IF j % 2 = 1 THEN Wait(ms)
        ELSE Pr((((j \div 2) - 1) * 100) \div steps)]

\* the body of the try block of each revision's handleProcess
script(v) ==
    CASE v = "app1" -> stepLoop(20, 100) \o << Result >>
      [] v = "app4" -> stepLoop(20, 150) \o << Result >>
      [] v = "app2" ->
            << St("Detecting Sora/TikTok Keyframes..."), Pr(20), Wait(700),
               St("Analyzing Temporal Consistency..."), Pr(45), Wait(700),
               St("Synthesizing Neural Fill..."), Pr(75), Wait(700),
               St("Removing Artifacts..."), Pr(95), Wait(700),
               St("Master Purification Ready."), Pr(100), Wait(700),
               Result >>
      [] v = "app3" ->
            << St("Scanning for Brand Signatures..."), Pr(20), Collab,
               St("Detaching Brand Layers..."), Pr(50), Wait(800),
               St("AI In-painting: Texture Matching..."), Pr(80), Wait(800),
               St("Finalizing Clean Stream..."), Pr(95), Wait(400),
               Result, Meta, Pr(100) >>
      [] v = "part0" ->
            << St("Analyzing brand signatures (TikTok/Sora/CapCut)..."), Pr(10), Collab,
               Wait(1200), Pr(35), StT("Detaching ", " signature layers..."),
               Wait(1500), Pr(65), St("Generative In-painting: Restoring hidden pixels..."),
               Wait(1000), Pr(85), St("Cleansing metadata and brand tags..."),
               Wait(800), Pr(95), St("Finalizing Royal Polish..."),
               Result, Meta, Pr(100) >>
      [] v = "part1" ->
            << St("Identifying platform signatures..."), Pr(25), Collab,
               Pr(60), St("Detaching brand layers..."), Wait(600),
               Pr(90), St("Finalizing pixel restoration..."), Wait(600),
               Result, Meta, Pr(100) >>
      [] v = "part2a" ->
            << St("Scanning for hard-coded pixel signatures..."), Pr(20), Wait(900),
               Collab,
               St("Synthesizing invisible texture patches..."), Pr(50), Wait(1200),
               St("Applying Bi-Directional Temporal Smoothing..."), Pr(80), Wait(1000),
               St("Final Polish: Matching Film Grain..."), Pr(100), Wait(700),
               Result, Meta >>
      [] v = "part3" ->
            << St("Analyzing pixel signatures..."), Pr(20), Wait(800),
               Collab,
               St("Executing Seamless Detachment..."), Pr(55), Wait(1200),
               St("Reconstructing sensor grain..."), Pr(85), Wait(1000),
               St(<< "Finalizing ClearStream", TradeMarkSign, "..." >>), Pr(100), Wait(500),
               Result, Meta >>
      [] OTHER ->  \* part2b
            << Sim(5, 30, 1000), Sim(30, 70, 2000), Sim(70, 100, 800), Result >>

\* setProgress(...) before the try block
initialProgress(v) == IF v = "part2b" THEN 5 ELSE 0

\* setStatusMessage(...) before the try block
initialStatus(v) ==
    CASE v = "app2" -> "Booting Erase Engine..."
      [] v = "app3" -> "Awakening Royal Neural Networks..."
      [] v = "part0" -> "Awakening Royal Neural Networks..."
      [] v = "part1" -> "Synchronizing Royal AI..."
      [] v = "part2a" -> "Initializing Restoration Matrix..."
      [] v = "part3" -> "Awakening Royal Neural Core..."
      [] OTHER -> ""

\* let platform = ...; if (name.includes(...)) platform = ...
detectPlatform(v, f, url) ==
    LET name == toLowerCase(IF f /= Null /\ (v = "part0" \/ truthy(f[1].name))
                            THEN f[1].name ELSE url)
        tiktok == includes(name, str_tiktok)
        capcut == includes(name, str_capcut)
        sora == includes(name, str_sora)
        stock == includes(name, str_stock)
        shutter == includes(name, str_shutter)
        getty == includes(name, str_getty)
    IN  CASE v \in { "app3", "part0" } ->
               IF tiktok THEN "TikTok" ELSE IF capcut THEN "CapCut"
               ELSE IF sora THEN "OpenAI Sora"
               ELSE IF shutter \/ stock THEN "Stock Provider" ELSE "Universal Brand"
          [] v = "part1" ->
               IF tiktok THEN "TikTok" ELSE IF capcut THEN "CapCut"
               ELSE IF sora THEN "Sora" ELSE IF stock THEN "Stock" ELSE "Universal"
          [] v = "part2a" ->
               IF tiktok THEN "TikTok Multi-Layer"
               ELSE IF sora THEN "OpenAI Sora Dynamic"
               ELSE IF getty \/ shutter THEN "Full-Frame Grid" ELSE "Advanced Digital"
          [] v = "part3" ->
               IF tiktok THEN "TikTok" ELSE IF capcut THEN "CapCut"
               ELSE IF sora THEN "Sora AI"
               ELSE IF stock THEN "Commercial Stock" ELSE "Universal"
          [] OTHER -> ""

\* the argument of setDetectionMetadata
detectionMetadata(v, f, url) ==
    LET platform == detectPlatform(v, f, url)
    IN  CASE v = "app3" -> [platform |-> platform, strategy |-> "Sovereign In-painting Applied"]
          [] v = "part0" ->
               IF f /= Null
               THEN [platform |-> platform, strategy |-> "Sovereign In-painting Applied"]
               ELSE [platform |-> "Web Stream", strategy |-> "Direct Injection Clean"]
          [] v = "part1" -> [platform |-> platform, strategy |-> "Neural In-painting"]
          [] v = "part2a" -> [platform |-> platform, intensity |-> "Maximum (Deep Erase)"]
          [] v = "part3" -> [platform |-> platform, strategy |-> "Spatial Texture Interpolation"]
          [] OTHER -> [platform |-> platform]

\* the message of setError in the validation branch
validationError(v) ==
    CASE v = "app3" -> "Please provide a video file or a link to purify."
      [] v = "part0" -> "Please provide a video file or a link to purify."
      [] v = "part1" -> "Provide a video scroll or link to begin."
      [] v = "part2a" -> "A source must be provided for purification."
      [] v = "part2b" -> "Your Highness, please provide a video to polish."
      [] v = "part3" -> "Please provide a source to purify."
      [] OTHER -> "Please provide a video file or a link."

\* the message of setError in the catch block
processingError(v) ==
    CASE v = "app2" -> "Neural Bridge Failure. Please check connection."
      [] v = "app3" -> "The Royal Detachment process was interrupted by a source brand shield."
      [] v = "part0" -> "The Detachment failed. This watermark belongs to a high-order brand protected by custom encryption."
      [] v = "part1" -> "Detachment failed. The brand shield is too strong."
      [] v = "part2a" -> "Restoration engine stalled. Check source compatibility."
      [] v = "part2b" -> "The royal AI spell was interrupted. Please try again."
      [] v = "part3" -> "Neural detachment process failed. Source encrypted."
      [] OTHER -> "The AI processing failed. Please try again later."

ValidationErrors == { Some(validationError(v)) : v \in Variants }
ProcessingErrors == { Some(processingError(v)) : v \in Variants }

\* setResultVideo(...) at the end of the try block: st is the state the
\* continuation writes, cl the closure (the file and videoUrl of the click)
setResult(v, cl, st) ==
    IF v \in { "app4", "part2b" }
    THEN [st EXCEPT !.resultVideo = Some(str_placeholder)]
    ELSE IF cl.file /= Null
    THEN LET localUrl == createObjectURL(st.created + 1)
         IN  [st EXCEPT !.created = st.created + 1,
                        !.live = st.live \cup { localUrl },
                        !.resultVideo = Some(localUrl)]
    ELSE IF v = "app1" /\ ~truthy(cl.url) THEN st
    ELSE [st EXCEPT !.resultVideo = Some(cl.url)]

\* runs the statements of the try block from statement i to the next await;
\* the result is the state written and the statement awaited (past the end:
\* the block completed)
RECURSIVE exec(_, _, _, _)
exec(v, cl, st, i) ==
    IF i > Len(script(v)) THEN [st |-> st, pc |-> i]
    ELSE LET o == script(v)[i]
         IN  CASE o.op \in { "wait", "collab" } -> [st |-> st, pc |-> i]
               [] o.op = "sim" -> [st |-> [st EXCEPT !.cur = o.from * 40], pc |-> i]
               [] o.op = "status" -> exec(v, cl, [st EXCEPT !.statusMessage = o.m], i + 1)
               [] o.op = "statusT" ->
                    exec(v, cl, [st EXCEPT !.statusMessage =
                                   << o.pre, detectPlatform(v, cl.file, cl.url), o.post >>], i + 1)
               [] o.op = "progress" -> exec(v, cl, [st EXCEPT !.progress = o.p], i + 1)
               [] o.op = "result" -> exec(v, cl, setResult(v, cl, st), i + 1)
               [] OTHER -> exec(v, cl, [st EXCEPT !.metadata =
                                          Some(detectionMetadata(v, cl.file, cl.url))], i + 1)

-----------------------------------------------------------------------------
(* The component *)

Idle == [pc |-> 0, file |-> Null, url |-> << >>, cur |-> 0]

NoVideo == [mounted |-> FALSE, paused |-> TRUE, ended |-> FALSE, w |-> 0, h |-> 0]
NoCanvas == [w |-> 0, h |-> 0, drawn |-> FALSE, comp |-> << >>]

\* a canvas element as created: 300 x 150, blank
FreshCanvas == [w |-> 300, h |-> 150, drawn |-> FALSE, comp |-> << >>]

NoProbe == [v |-> "", W |-> 0, H |-> 0, i |-> 0, src |-> << >>, ops |-> << >>,
            surface |-> { }, reordered |-> { }]

Event(op, arg) == [op |-> op, arg |-> arg]

Init ==
    /\ variant \in Variants
    /\ mounted = TRUE
    /\ file = Null
    /\ videoUrl = << >>
    /\ isProcessing = FALSE
    /\ progress = 0
    /\ statusMessage = ""
    /\ resultVideo = Null
    /\ error = Null
    /\ metadata = Null
    /\ compare = FALSE
    /\ proc = Idle
    /\ intervals = << >>
    /\ doneTimer = FALSE
    /\ created = 0
    /\ live = {}
    /\ revokes = EmptyBag
    /\ chains = NoChains
    /\ video = NoVideo
    /\ canvas = NoCanvas
    /\ runs = 0
    /\ last = Event("init", Null)
    /\ probe = NoProbe

\* the form is shown beside the result as well
FormVisible_besideResult == mounted /\ ~isProcessing

\* the JSX branch with the file input, the link field and the process button
\* is shown and nothing covers it
FormVisible == mounted /\ ~isProcessing /\ resultVideo = Null

\* In part2b the branch depends on resultVideo alone: while isProcessing it
\* stays in the tree under an overlay (absolute inset-0 z-50) that covers the
\* panel.  The overlay stops the pointer, not the keyboard: the link field and
\* the process button (which keeps the focus after the click) still answer
\* to keys; the file input (className="hidden") does not.
KeyboardReach == variant = "part2b" /\ mounted /\ isProcessing /\ resultVideo = Null

\* the JSX branch with the <video>, the reset button and the toggle
ResultVisible == mounted /\ ~isProcessing /\ resultVideo /= Null

\* the <video ref={videoRef}> and <canvas ref={canvasRef}> are in the tree
ElementsMounted == HasLoop(variant) /\ ResultVisible

\* the cleanup returned by useEffect(..., [resultVideo]), closed over the
\* resultVideo r of the render that installed it
effectCleanup(v, hp, ch, r) ==
    [hp |-> IF HasCleanup(v) THEN revokeIfBlob(hp, r) ELSE hp,
     ch |-> IF HasLoop(v) THEN cancelAnimationFrame(ch) ELSE ch]

\* an effect without its dependency list: the cleanup runs at every render
Commit_everyRender(hp, ch) ==
    LET c == IF mounted THEN effectCleanup(variant, hp, ch, resultVideo)
             ELSE [hp |-> hp, ch |-> ch]
    IN  /\ live' = c.hp.live
        /\ revokes' = c.hp.revokes
        /\ chains' = c.ch

\* React commits the render: when resultVideo changed, the cleanup of the
\* previous effect runs; hp and ch are the heap and the callbacks the handler left
Commit(hp, ch) ==
    LET c == IF mounted /\ resultVideo' /= resultVideo
             THEN effectCleanup(variant, hp, ch, resultVideo)
             ELSE [hp |-> hp, ch |-> ch]
    IN  /\ live' = c.hp.live
        /\ revokes' = c.hp.revokes
        /\ chains' = c.ch

\* the elements are created anew at every render of the result branch
Elements_remounted(vd, cv) ==
    IF ~ElementsMounted' THEN video' = NoVideo /\ canvas' = NoCanvas
    ELSE /\ \E d \in Sizes :
               video' = [mounted |-> TRUE, paused |-> TRUE, ended |-> FALSE,
                         w |-> d[1], h |-> d[2]]
         /\ canvas' = FreshCanvas

\* the elements after the render: created when the result branch appears,
\* removed when it disappears, otherwise as the handler left them (vd, cv)
Elements(vd, cv) ==
    IF ~ElementsMounted' THEN video' = NoVideo /\ canvas' = NoCanvas
    ELSE IF ~ElementsMounted
    THEN /\ \E d \in Sizes :
               video' = [mounted |-> TRUE, paused |-> TRUE, ended |-> FALSE,
                         w |-> d[1], h |-> d[2]]
         /\ canvas' = FreshCanvas
    ELSE video' = vd /\ canvas' = cv

Heap == [live |-> live, revokes |-> revokes]

\* handleFileChange, or the inline onChange of the file input; f = Null is a
\* change event whose FileList is empty
SelectFile(f) ==
    /\ FormVisible
    /\ IF InlineFileChange(variant)
       THEN /\ file' = f
            /\ UNCHANGED << videoUrl, error, resultVideo, metadata >>
       ELSE IF f /= Null
       THEN /\ file' = f
            /\ videoUrl' = << >>
            /\ error' = Null
            /\ resultVideo' = IF variant \in { "app4", "part2b" } THEN resultVideo ELSE Null
            /\ metadata' = IF variant \in { "app3", "part0", "part1" } THEN Null ELSE metadata
       ELSE UNCHANGED << file, videoUrl, error, resultVideo, metadata >>
    /\ UNCHANGED << variant, intervals, mounted, isProcessing, progress, statusMessage, compare,
                    proc, doneTimer, created, runs, probe >>
    /\ Commit(Heap, chains)
    /\ Elements(video, canvas)
    /\ last' = Event("selectFile", f)

\* onChange of the link field: setVideoUrl(e.target.value); setFile(null)
EnterUrl(u) ==
    /\ FormVisible \/ KeyboardReach
    /\ u /= videoUrl
    /\ videoUrl' = u
    /\ file' = Null
    /\ UNCHANGED << variant, intervals, mounted, isProcessing, progress, statusMessage, resultVideo,
                    error, metadata, compare, proc, doneTimer, created, runs, probe >>
    /\ Commit(Heap, chains)
    /\ Elements(video, canvas)
    /\ last' = Event("enterUrl", u)

\* what a continuation of handleProcess starts from
Written == [progress |-> progress, statusMessage |-> statusMessage,
            resultVideo |-> resultVideo, metadata |-> metadata,
            created |-> created, live |-> live, cur |-> proc.cur]

\* the state setters of a continuation take effect (they are dropped once the
\* component is unmounted); res is what exec returned, began whether the call
\* has just begun (setIsProcessing(true) before the try block).  When the try
\* block completed, the finally block clears isProcessing, at once or from a
\* timer.
Settle(res, began) ==
    LET fin == res.pc > Len(script(variant))
    IN  /\ created' = res.st.created
        /\ doneTimer' = IF fin /\ DoneDelay(variant) > 0 THEN TRUE ELSE doneTimer
        /\ IF mounted
           THEN /\ progress' = res.st.progress
                /\ statusMessage' = res.st.statusMessage
                /\ resultVideo' = res.st.resultVideo
                /\ metadata' = res.st.metadata
                /\ isProcessing' = IF fin /\ DoneDelay(variant) = 0 THEN FALSE
                                   ELSE IF began THEN TRUE ELSE isProcessing
           ELSE UNCHANGED << progress, statusMessage, resultVideo, metadata, isProcessing >>
        /\ Commit([live |-> res.st.live, revokes |-> revokes], chains)
        /\ Elements(video, canvas)

\* a continuation of the call held in proc ran up to its next await
Continue(res, cl, began) ==
    /\ proc' = IF res.pc > Len(script(variant)) THEN Idle
               ELSE [pc |-> res.pc, file |-> cl.file, url |-> cl.url, cur |-> res.st.cur]
    /\ Settle(res, began)

\* part2b can have several calls of handleProcess in flight.  Each awaits a
\* setInterval(..., 30) timer; timers of one period fire in the order they
\* were armed, so the armed timers form a queue: the head fires next, and a
\* timer that fires, or is armed, is due again after all the others.  An entry
\* is the position of the call that owns the timer (part2b reads neither file
\* nor videoUrl after the validation: no closure is kept), Held for the call
\* kept in proc.
Position(pc, cur) == [pc |-> pc, cur |-> cur]
Held == Position(0, 0)
NoClosure == [file |-> Null, url |-> << >>]

\* the queue once the interval at its head fired (armed = FALSE: a call begins),
\* the call that owns it ran up to res and holds entry e from now on
rearm(armed, res, e) ==
    (IF armed THEN Tail(intervals) ELSE intervals)
       \o (IF res.pc > Len(script(variant)) THEN << >> ELSE << e >>)

\* the calls of handleProcess in flight, as positions, one entry per call
InFlight ==
    (IF proc.pc > 0 THEN << Position(proc.pc, proc.cur) >> ELSE << >>)
       \o SelectSeq(intervals, LAMBDA e : e /= Held)

\* the call at p began at most MaxLag interval ticks ago
justBegun(p) ==
    LET o == script(variant)[1]
    IN  /\ p.pc = 1
        /\ o.op = "sim"
        /\ p.cur - o.from * 40 <= MaxLag * (((o.to - o.from) * 30 * 40) \div o.dur)

\* a continuation of a further call ran up to its next await
ContinueReentered(armed, res) ==
    /\ intervals' = rearm(armed, res, Position(res.pc, res.st.cur))
    /\ Settle(res, ~armed)

\* the same condition with the second negation lost: if (!file && videoUrl)
noSource_lostNegation(f, url) == f = Null /\ truthy(url)

\* the condition of handleProcess's first statement: if (!file && !videoUrl)
noSource(f, url) == f = Null /\ ~truthy(url)

\* handleProcess, from the click to its first await.  ctorOk: whether
\* `new GoogleGenAI({ apiKey: process.env.API_KEY || '' })` returns or throws.
Process(ctorOk) ==
    /\ FormVisible \/ KeyboardReach
    /\ ~(ProcessDisabledWithoutSource(variant) /\ file = Null /\ ~truthy(videoUrl))
    /\ UNCHANGED << variant, mounted, compare, probe >>
    /\ IF noSource(file, videoUrl)
       THEN /\ error' = IF variant = "app2" THEN error ELSE Some(validationError(variant))
            /\ UNCHANGED << file, videoUrl, isProcessing, progress, statusMessage,
                            resultVideo, metadata, proc, intervals, doneTimer,
                            created, runs >>
            /\ Commit(Heap, chains)
            /\ Elements(video, canvas)
            /\ last' = Event("processRejected", Null)
       ELSE /\ runs < MaxRuns
            /\ InFlight /= << >> => \E i \in DOMAIN InFlight : justBegun(InFlight[i])
            /\ runs' = runs + 1
            /\ UNCHANGED << file, videoUrl >>
            /\ LET cl == [file |-> file, url |-> videoUrl]
                   st0 == [Written EXCEPT !.progress = initialProgress(variant),
                                          !.statusMessage = IF HasStatus(variant)
                                                            THEN initialStatus(variant)
                                                            ELSE statusMessage]
                   res == IF ctorOk THEN exec(variant, cl, st0, 1)
                          ELSE [st |-> st0, pc |-> Len(script(variant)) + 1]
               IN  /\ error' = IF ctorOk THEN Null ELSE Some(processingError(variant))
                   /\ IF proc.pc > 0
                      THEN ContinueReentered(FALSE, res) /\ UNCHANGED proc
                      ELSE /\ Continue(res, cl, TRUE)
                           /\ intervals' = IF variant = "part2b"
                                           THEN rearm(FALSE, res, Held)
                                           ELSE intervals
            /\ last' = Event("process", ctorOk)

\* the timer of `await new Promise(r => setTimeout(r, ms))` fires
TimerFires ==
    /\ proc.pc > 0
    /\ script(variant)[proc.pc].op = "wait"
    /\ UNCHANGED << variant, intervals, mounted, file, videoUrl, error, compare, runs, probe >>
    /\ Continue(exec(variant, proc, Written, proc.pc + 1), proc, FALSE)
    /\ last' = Event("timer", script(variant)[proc.pc].ms)

\* the promise of ai.models.generateContent settles: resolved (ok) or rejected
\* into the inner catch
CollabSettles(ok) ==
    /\ proc.pc > 0
    /\ script(variant)[proc.pc].op = "collab"
    /\ UNCHANGED << variant, intervals, mounted, file, videoUrl, error, compare, runs, probe >>
    /\ Continue(exec(variant, proc, Written, proc.pc + 1), proc, FALSE)
    /\ last' = Event("collab", ok)

\* one tick of the setInterval(..., 30) of simulateProgress(start, end, duration);
\* current and step are kept in fortieths
intervalTick(p, cl) ==
    LET o == script(variant)[p.pc]
        step == ((o.to - o.from) * 30 * 40) \div o.dur
        current == p.cur + step
    IN  IF current >= o.to * 40
        THEN exec(variant, cl, [Written EXCEPT !.progress = o.to, !.cur = current],
                  p.pc + 1)
        ELSE [st |-> [Written EXCEPT !.progress = current \div 40, !.cur = current],
              pc |-> p.pc]

IntervalFires ==
    /\ proc.pc > 0
    /\ script(variant)[proc.pc].op = "sim"
    /\ variant = "part2b" => Head(intervals) = Held
    /\ UNCHANGED << variant, mounted, file, videoUrl, error, compare, runs, probe >>
    /\ Continue(intervalTick(proc, proc), proc, FALSE)
    /\ intervals' = IF variant = "part2b"
                    THEN rearm(TRUE, intervalTick(proc, proc), Held)
                    ELSE intervals
    /\ last' = Event("interval", Null)

\* the same tick, of the interval of a further call in flight
ReenteredIntervalFires ==
    /\ UNCHANGED << variant, mounted, file, videoUrl, error, compare, proc, runs, probe >>
    /\ intervals /= << >>
    /\ Head(intervals) /= Held
    /\ ContinueReentered(TRUE, intervalTick(Head(intervals), NoClosure))
    /\ last' = Event("interval", Null)

\* the timer of the finally block fires: setIsProcessing(false)
DoneTimerFires ==
    /\ doneTimer
    /\ doneTimer' = FALSE
    /\ isProcessing' = IF mounted THEN FALSE ELSE isProcessing
    /\ UNCHANGED << variant, intervals, mounted, file, videoUrl, progress, statusMessage, resultVideo,
                    error, metadata, compare, proc, created, runs, probe >>
    /\ Commit(Heap, chains)
    /\ Elements(video, canvas)
    /\ last' = Event("doneTimer", Null)

\* reset, or in app2 the inline onClick of the NEW PROJECT button
Reset ==
    /\ ResultVisible
    /\ resultVideo' = Null
    /\ IF variant = "app2"
       THEN UNCHANGED << file, videoUrl, progress, error, metadata >>
       ELSE /\ file' = Null
            /\ videoUrl' = << >>
            /\ IF variant \in { "app1", "app4", "part0", "part2b" }
               THEN progress' = 0 /\ error' = Null
               ELSE UNCHANGED << progress, error >>
            /\ metadata' = IF variant \in { "app1", "app4", "part2b" } THEN metadata ELSE Null
    /\ UNCHANGED << variant, intervals, mounted, isProcessing, statusMessage, compare, proc,
                    doneTimer, created, runs, probe >>
    /\ Commit(IF variant \in { "app4", "part2b" } THEN Heap
              ELSE revokeIfBlob(Heap, resultVideo),
              IF variant \in { "app3", "part1", "part2a", "part3" }
              THEN cancelAnimationFrame(chains) ELSE chains)
    /\ Elements(video, canvas)
    /\ last' = Event("reset", resultVideo)

\* onClick of the compare button: setCompareMode(!compareMode) / setShowOriginal(!showOriginal)
ToggleCompare ==
    /\ ResultVisible
    /\ HasCompare(variant)
    /\ compare' = ~compare
    /\ UNCHANGED << variant, intervals, mounted, file, videoUrl, isProcessing, progress, statusMessage,
                    resultVideo, error, metadata, proc, doneTimer, created, runs, probe >>
    /\ Commit(Heap, chains)
    /\ Elements(video, canvas)
    /\ last' = Event("toggle", ~compare)

-----------------------------------------------------------------------------
(* The frame loop *)

AllZones(v) == [i \in 1..Len(zones(v)) |-> i]

\* the guard without its test of video.paused
bodyRuns_ignoresPause(vd) == vd.mounted /\ ~vd.ended

\* the `if (ctx && !video.paused && !video.ended)` of processFrame
bodyRuns(vd) == vd.mounted /\ ~vd.paused /\ ~vd.ended

\* the surface is resized at every frame
needsResize_always(cv, vd) == TRUE

\* `canvas.width !== video.videoWidth || canvas.height !== video.videoHeight`
needsResize(cv, vd) == cv.w /= vd.w \/ cv.h /= vd.h

\* the body of the processFrame closure that captured cmp, on the canvas cv while
\* the video is vd: resize, draw the frame, composite every zone unless comparing
frameBody(v, cv, vd, cmp) ==
    IF bodyRuns(vd)
    THEN [w |-> IF needsResize(cv, vd) THEN vd.w ELSE cv.w,
          h |-> IF needsResize(cv, vd) THEN vd.h ELSE cv.h,
          drawn |-> TRUE,
          comp |-> IF HasCompare(v) /\ cmp THEN << >> ELSE AllZones(v)]
    ELSE cv

\* the zones are composited first and the frame is drawn over them
frameOps_drawLast(v, cv, vd, cmp) ==
    (IF ~bodyRuns(vd) THEN << >>
     ELSE [i \in 1..Len(frameBody(v, cv, vd, cmp).comp) |-> [op |-> "zone", i |-> i]]
             \o << [op |-> "draw", i |-> 0] >>)
       \o << [op |-> "raf", i |-> 0] >>

\* what one run of that closure does, in order: ctx.drawImage(video, ...), the
\* zones.forEach(...) body for each zone it composites, and at the end, in
\* every case, requestAnimationFrame(processFrame)
frameOps(v, cv, vd, cmp) ==
    (IF ~bodyRuns(vd) THEN << >>
     ELSE << [op |-> "draw", i |-> 0] >>
             \o [i \in 1..Len(frameBody(v, cv, vd, cmp).comp) |->
                    [op |-> "zone", i |-> frameBody(v, cv, vd, cmp).comp[i]]])
       \o << [op |-> "raf", i |-> 0] >>

\* the play event of the <video>: onPlay={() => processFrame()}, processFrame the
\* callback of the current render
Play ==
    /\ ElementsMounted
    /\ video.paused \/ video.ended
    /\ pending(chains) < MaxChains
    /\ LET vd == [video EXCEPT !.paused = FALSE, !.ended = FALSE]
       IN  /\ video' = vd
           /\ canvas' = frameBody(variant, canvas, vd, compare)
    /\ chains' = requestAnimationFrame(chains, compare)
    /\ UNCHANGED << variant, intervals, mounted, sessionVars, proc, doneTimer, created, live,
                    revokes, runs, probe >>
    /\ last' = Event("play", compare)

\* the user pauses the video
Pause ==
    /\ ElementsMounted
    /\ ~video.paused /\ ~video.ended
    /\ video' = [video EXCEPT !.paused = TRUE]
    /\ UNCHANGED << variant, intervals, mounted, sessionVars, proc, doneTimer, created, live,
                    revokes, chains, canvas, runs, probe >>
    /\ last' = Event("pause", Null)

\* playback reaches the end of the media (never with the loop attribute)
Ended ==
    /\ ElementsMounted
    /\ ~VideoLoops(variant)
    /\ ~video.paused /\ ~video.ended
    /\ video' = [video EXCEPT !.ended = TRUE]
    /\ UNCHANGED << variant, intervals, mounted, sessionVars, proc, doneTimer, created, live,
                    revokes, chains, canvas, runs, probe >>
    /\ last' = Event("ended", Null)

\* the browser runs a pending animation-frame callback of kind k: the closure's
\* body, then requestRef.current = requestAnimationFrame(processFrame)
Tick(k) ==
    /\ chains[k] > 0
    /\ canvas' = frameBody(variant, canvas, video, k[1])
    /\ chains' = requestAnimationFrame(dequeue(chains, k), k[1])
    /\ UNCHANGED << variant, intervals, mounted, sessionVars, proc, doneTimer, created, live,
                    revokes, video, runs, probe >>
    /\ last' = Event("tick", [cmp |-> k[1], ran |-> bodyRuns(video),
                               resized |-> bodyRuns(video) /\ needsResize(canvas, video),
                               ops |-> frameOps(variant, canvas, video, k[1])])

\* the component is torn down: the effect cleanup runs, the elements go
Unmount ==
    /\ mounted
    /\ mounted' = FALSE
    /\ LET c == effectCleanup(variant, Heap, chains, resultVideo)
       IN  /\ live' = c.hp.live
           /\ revokes' = c.hp.revokes
           /\ chains' = c.ch
    /\ video' = NoVideo
    /\ canvas' = NoCanvas
    /\ UNCHANGED << variant, intervals, sessionVars, proc, doneTimer, created, runs, probe >>
    /\ last' = Event("unmount", resultVideo)

Next ==
    \/ \E f \in FileInputs : SelectFile(f)
    \/ \E u \in Urls \cup { << >> } : EnterUrl(u)
    \/ \E ctorOk \in BOOLEAN : Process(ctorOk)
    \/ TimerFires
    \/ \E ok \in BOOLEAN : CollabSettles(ok)
    \/ IntervalFires
    \/ ReenteredIntervalFires
    \/ DoneTimerFires
    \/ Reset
    \/ ToggleCompare
    \/ Play
    \/ Pause
    \/ Ended
    \/ \E k \in ChainKinds : Tick(k)
    \/ Unmount

Spec == Init /\ [][Next]_vars

-----------------------------------------------------------------------------
(* The patch sampler on its own: every revision with a frame loop, every     *)
(* frame size up to MaxDim x MaxDim and the media sizes, every zone.          *)

FrameDims == ((1..MaxDim) \X (1..MaxDim)) \cup Sizes

SamplerInit ==
    /\ Init
    /\ HasLoop(variant)

\* processFrame reaches zone i of a W x H canvas: zX .. zH, the source rectangles
\* and the canvas operations of the zone
Sample(W, H, i, gx, gy) ==
    /\ probe.i = 0
    /\ probe' = [v |-> variant, W |-> W, H |-> H, i |-> i,
                 src |-> sampleSource(variant, zones(variant)[i], W, H),
                 ops |-> compositorOps(variant, zones(variant)[i], W, H, gx, gy),
                 surface |-> compositeAll(variant, W, H, gx, gy, AllZones(variant)),
                 reordered |-> compositeAll(variant, W, H, gx, gy, zoneFirst(variant, i))]
    /\ UNCHANGED << variant, intervals, mounted, sessionVars, proc, doneTimer, created, live,
                    revokes, chains, video, canvas, runs, last >>

SamplerNext ==
    \E d \in FrameDims : \E i \in 1..Len(zones(variant)) :
        \E gx, gy \in GrainChoices : Sample(d[1], d[2], i, gx, gy)

SamplerSpec == SamplerInit /\ [][SamplerNext]_vars

-----------------------------------------------------------------------------
(* Properties *)

\* the rectangle r (hundredths of a pixel) lies inside the W x H frame
InsideFrame(r, W, H) ==
    /\ 0 <= r.x /\ r.x + r.w <= 100 * W
    /\ 0 <= r.y /\ r.y + r.h <= 100 * H

\* C1: for every frame size and every zone of the catalog, each source
\* rectangle the sampler reads has the width and height of the zone's pixel
\* rectangle and lies entirely inside the frame.
C1_SourceInsideFrame ==
    probe.i > 0 =>
        LET z == zoneRect(zones(probe.v)[probe.i], probe.W, probe.H)
        IN  \A j \in DOMAIN probe.src :
                /\ probe.src[j].w = z.w
                /\ probe.src[j].h = z.h
                /\ InsideFrame(probe.src[j], probe.W, probe.H)

\* C2: a tick of the frame loop that draws a frame follows the compare flag the
\* session holds at that moment: no zone is composited while it is set, every
\* zone is composited while it is clear.
C2_TickFollowsCompare ==
    (last.op = "tick" /\ last.arg.ran) =>
        /\ canvas.drawn
        /\ canvas.comp = IF compare THEN << >> ELSE AllZones(variant)

\* C3: after reset the session is the initial empty session: no file, empty
\* link, no result, progress 0, no error, no metadata, compare off.
C3_ResetGivesEmptySession ==
    last.op = "reset" =>
        /\ file = Null
        /\ videoUrl = << >>
        /\ resultVideo = Null
        /\ progress = 0
        /\ error = Null
        /\ metadata = Null
        /\ compare = FALSE

\* the object URLs created so far
Allocated == { createObjectURL(n) : n \in 1..created }

\* reset was invoked while the result was an object URL created from a file
ResetHeldBlob ==
    /\ last.op = "reset"
    /\ last.arg /= Null
    /\ last.arg[1] \in Allocated

\* C4: when reset is invoked while the result is an object URL created from an
\* uploaded file, that URL has been revoked once reset has completed.
C4_ResetReleasesHandle ==
    ResetHeldBlob =>
        /\ last.arg[1] \notin live
        /\ CopiesIn(last.arg[1], revokes) >= 1

C4_Witness == ResetHeldBlob /\ mounted

\* C5: an animation-frame callback is pending only while the component is
\* mounted and the session holds a result; none survives reset or teardown.
C5_TickPendingOnlyWhileReady ==
    pending(chains) > 0 => (mounted /\ resultVideo /= Null)

\* a file selection or a link entry that supplied a source has just happened
JustSelected ==
    \/ last.op = "selectFile" /\ last.arg /= Null
    \/ last.op = "enterUrl" /\ truthy(last.arg)

\* C6: never are a file and a link text both present, and right after a file
\* selection or a link entry exactly one of them is present.
C6_ExclusiveSource ==
    /\ ~(file /= Null /\ truthy(videoUrl))
    /\ JustSelected => ((file /= Null) /= truthy(videoUrl))

\* the progress last written by the call of part2b at position p: the floor of
\* the current value of its interval (the start of a stage is the end of the
\* stage before)
written(p) == p.cur \div 40

\* an interval of part2b fired: the timer at the head of the queue
IntervalStep ==
    /\ variant = "part2b" /\ mounted /\ intervals /= << >>
    /\ last'.op = "interval"
    /\ << proc, intervals >>' /= << proc, intervals >>

\* one step of a staged sequence: a continuation never lowers the progress
\* its sequence wrote before (where one sequence runs at a time, the progress
\* of the session), the click starts it at or above the value written before
\* the try block, and the step that hands over the result leaves the progress
\* at 100
ProgressStep ==
    /\ (proc.pc > 0 /\ variant /= "part2b") => progress' >= progress
    /\ IntervalStep =>
            progress' >= written(IF Head(intervals) = Held THEN proc ELSE Head(intervals))
    /\ (mounted /\ last'.op = "process" /\ runs' /= runs) =>
            progress' >= initialProgress(variant)
    /\ (resultVideo = Null /\ resultVideo' /= Null) => progress' = 100

\* C7: during one staged sequence the progress values written are
\* non-decreasing, and when the sequence completes with a result the progress
\* is exactly 100.
C7_ProgressMonotone == [][ProgressStep]_vars

\* a staged sequence has just completed with a result, after rising stages
C7_Witness ==
    /\ last.op \in { "timer", "interval" }
    /\ proc.pc = 0
    /\ resultVideo /= Null
    /\ progress = 100

\* a click on process in a state with neither file nor link
RejectedClick ==
    /\ FormVisible /\ file = Null /\ ~truthy(videoUrl)
    /\ last'.op \in { "process", "processRejected" }

\* C8: process invoked with neither a file nor a link sets the validation
\* error and enters no stage: isProcessing stays false, progress, status and
\* result are unchanged, no timer and no collaborator call is started.
C8_NoSourceRejected ==
    [][RejectedClick =>
          /\ error' = Some(validationError(variant))
          /\ isProcessing' = FALSE
          /\ UNCHANGED << progress, statusMessage, resultVideo, metadata,
                          proc, intervals, doneTimer, created, runs >>]_vars

C8_Witness ==
    /\ last.op = "processRejected"
    /\ error = Some(validationError(variant))
    /\ ~isProcessing /\ proc = Idle /\ ~doneTimer

\* C9: when a staged sequence completes, the result is a newly created object
\* URL if the source was a file, and exactly the entered link if it was a link.
C9_ResultMatchesSource ==
    (last.op \in { "timer", "interval" } /\ proc.pc = 0 /\ resultVideo /= Null) =>
        IF file /= Null
        THEN /\ created > 0
             /\ resultVideo = Some(createObjectURL(created))
             /\ createObjectURL(created) \in live
        ELSE resultVideo = Some(videoUrl)

\* C10: whatever the collaborator does (set up or not, answering or failing),
\* a staged sequence that has run to its end leaves the session with a result
\* and no error.
C10_CollaboratorNoEffect ==
    (mounted /\ proc.pc = 0 /\ last.op \in { "process", "timer", "collab", "interval" }) =>
        /\ error = Null
        /\ resultVideo /= Null

-----------------------------------------------------------------------------
(* Scheduling.  The browser runs every timer that is due: the setTimeout of  *)
(* an awaited delay, the setInterval of simulateProgress and the setTimeout  *)
(* of the finally block.  Nothing obliges the collaborator to answer.        *)

TimersFire ==
    /\ WF_vars(TimerFires)
    /\ WF_vars(IntervalFires)
    /\ WF_vars(ReenteredIntervalFires)
    /\ WF_vars(DoneTimerFires)

FairSpec == Spec /\ TimersFire

\* C11: every staged sequence started with a source eventually finishes and
\* isProcessing returns to false (while the component stays mounted), given
\* only that timers fire, even if the collaborator never answers.
C11_SequenceFinishes ==
    (mounted /\ isProcessing) ~> (~mounted \/ (~isProcessing /\ proc.pc = 0))

\* C12: no object URL leaks: a URL created from an uploaded file and not yet
\* revoked is the result the mounted session currently holds; none outlives
\* reset, replacement of the result or teardown.
C12_NoHandleLeak ==
    \A u \in live : mounted /\ resultVideo = Some(u)

\* C13: a link the user entered is never released: URL.revokeObjectURL is
\* never applied to a string the user typed into the link field, whatever that
\* string is.
C13_ExternalNeverReleased ==
    \A u \in Urls : ~BagIn(u, revokes)

\* the rectangle a lies inside the rectangle b
InsideRect(a, b) ==
    /\ b.x <= a.x /\ a.x + a.w <= b.x + b.w
    /\ b.y <= a.y /\ a.y + a.h <= b.y + b.h

\* the point (px, py) is not cut off by the rounded corner of centre (cx, cy)
\* of a mask of radius rad
InCorner(px, py, cx, cy, rad) ==
    (px - cx) * (px - cx) + (py - cy) * (py - cy) <= rad * rad

\* the point (px, py) of the mask's rectangle lies in the rounded mask m
PointInMask(px, py, m) ==
    LET lo == m.rect.x + m.radius
        hi == m.rect.x + m.rect.w - m.radius
        top == m.rect.y + m.radius
        bot == m.rect.y + m.rect.h - m.radius
        cx == IF px < lo THEN lo ELSE hi
        cy == IF py < top THEN top ELSE bot
    IN  ((px < lo \/ px > hi) /\ (py < top \/ py > bot)) => InCorner(px, py, cx, cy, m.radius)

\* every pixel of the rectangle a lies in the mask m
RectInMask(a, m) ==
    /\ InsideRect(a, m.rect)
    /\ \A px \in { a.x, a.x + a.w } : \A py \in { a.y, a.y + a.h } : PointInMask(px, py, m)

\* C14: while a zone is composited no pixel outside its mask is read or
\* written: every rectangle read lies in the mask, and every rectangle painted
\* lies in the mask unless the clip confines it there.
C14_CompositorStaysInMask ==
    probe.i > 0 =>
        LET m == mask(probe.v, zones(probe.v)[probe.i], probe.W, probe.H)
        IN  \A j \in DOMAIN probe.ops :
                /\ \A k \in DOMAIN probe.ops[j].read : RectInMask(probe.ops[j].read[k], m)
                /\ probe.ops[j].clipped \/ RectInMask(probe.ops[j].write, m)

\* the sampler ran on a 1920 x 1080 frame in a revision with direction hints
HintedFullHD ==
    /\ probe.i > 0 /\ probe.W = 1920 /\ probe.H = 1080
    /\ probe.v \in { "app2", "part2a" }

\* C15: on a 1920 x 1080 frame the sample moves away from the edge the zone
\* sits against: a left-half zone with a horizontal hint is sampled from a
\* rectangle starting at or after the zone's right edge plus the gap, a
\* right-half zone from one ending at or before the zone's left edge, a bottom
\* zone with a vertical hint from one lying entirely above it; the sample lies
\* inside the frame.
C15_SampleMovesInward ==
    HintedFullHD =>
        LET z == zones(probe.v)[probe.i]
            r == zoneRect(z, probe.W, probe.H)
            hh == horizontalHint(probe.v, z)
            vh == verticalHint(probe.v, z)
        IN  \A j \in DOMAIN probe.src :
                LET sr == probe.src[j]
                IN  /\ (hh /\ z.x < 50) => sr.x >= r.x + r.w + gap(probe.v)
                    /\ (hh /\ z.x >= 50) => sr.x + sr.w <= r.x
                    /\ (vh /\ z.y > 50) => sr.y + sr.h <= r.y
                    /\ (hh \/ vh) => InsideFrame(sr, probe.W, probe.H)

\* a left-half zone with a horizontal hint was sampled on 1920 x 1080
C15_Witness ==
    /\ HintedFullHD
    /\ horizontalHint(probe.v, zones(probe.v)[probe.i])
    /\ zones(probe.v)[probe.i].x < 50
    /\ Len(probe.src) = 1


\* C16: at most one staged sequence is in flight at any time (so the progress
\* writes of two sequences never interleave).
C16_OneSequenceInFlight == Len(intervals) <= 1 /\ Len(InFlight) <= 1


\* C17: after a validation error or a processing error the session comes back,
\* with isProcessing false and no result, to the form where the source can be
\* changed and process invoked again (unless the user leaves or the error is
\* cleared first).
C17_ErrorRecoverable ==
    (mounted /\ error /= Null) ~> (~mounted \/ error = Null \/ FormVisible)


\* an animation-frame callback ran while the media was paused or ended
IdleTick == last'.op = "tick" /\ (video.paused \/ video.ended)

\* C18: a tick that fires while the media is paused or ended leaves the
\* surface (its size and its pixels) as it was and schedules exactly one next
\* tick: as many callbacks are pending after it as before, one of them the
\* one it requested.
C18_IdleTickKeepsSurface ==
    [][IdleTick =>
          /\ canvas' = canvas
          /\ pending(chains') = pending(chains)
          /\ chains'[<< FALSE, TRUE >>] + chains'[<< TRUE, TRUE >>] = 1]_vars

\* a tick has just fired on a paused video whose surface holds a frame
C18_Witness ==
    /\ last.op = "tick" /\ ~last.arg.ran
    /\ video.mounted /\ video.paused
    /\ canvas.drawn
    /\ pending(chains) >= 1


\* a tick whose body ran has just fired
BodyRan == last.op = "tick" /\ last.arg.ran

\* the zones a tick composited, in the order it took them
zonesOf(ops) == [j \in 1..(Len(ops) - 2) |-> ops[j + 1].i]

\* the raw frame is drawn first, then come zones only, and the next tick is
\* requested last
DrawZonesRequest(ops) ==
    /\ Len(ops) >= 2
    /\ ops[1].op = "draw"
    /\ \A j \in 2..(Len(ops) - 1) : ops[j].op = "zone"
    /\ ops[Len(ops)].op = "raf"

\* C19 (as stated): in a tick whose body runs the raw frame is drawn before
\* any region is composited, and every region of the catalog is composited
\* before the next tick is scheduled.
C19_EveryRegionComposited ==
    BodyRan => /\ DrawZonesRequest(last.arg.ops)
               /\ zonesOf(last.arg.ops) = AllZones(variant)

\* C19 (amended): in a tick whose body runs the raw frame is drawn first and
\* the next tick is scheduled last; between them every region of the catalog
\* is composited, in catalog order, unless the tick's processFrame closure
\* holds compare-original set, and then no region is.
C19_DrawnThenComposited ==
    BodyRan => /\ DrawZonesRequest(last.arg.ops)
               /\ zonesOf(last.arg.ops) =
                     IF HasCompare(variant) /\ last.arg.cmp THEN << >>
                     ELSE AllZones(variant)

\* a tick's body ran on a playing video and composited the whole catalog
C19_Witness ==
    /\ BodyRan /\ ~last.arg.cmp
    /\ ~video.paused
    /\ Len(last.arg.ops) = Len(zones(variant)) + 2
    /\ canvas.comp = AllZones(variant)


\* the compare button has been clicked
ToggleStep == last'.op = "toggle" /\ compare' /= compare

\* C20: toggling compare-original in Ready negates compareOriginal and changes
\* nothing else: source, progress, status, result, error and the sequence
\* are as they were, no handle is created or released, no pending tick is
\* cancelled, video and surface are untouched; so a second toggle restores
\* the state the first one started from.
C20_ToggleChangesCompareOnly ==
    [][ToggleStep =>
          /\ ResultVisible /\ ResultVisible'
          /\ compare' = ~compare
          /\ UNCHANGED << file, videoUrl, isProcessing, progress, statusMessage,
                          resultVideo, error, metadata, proc, intervals, doneTimer,
                          created, live, revokes, chains, video, canvas, runs >>]_vars

\* compare-original has been toggled on and off again in Ready, with a transient
\* handle allocated and a tick pending
C20_Witness ==
    /\ last.op = "toggle" /\ ~compare
    /\ ResultVisible
    /\ resultVideo \in { Some(u) : u \in live }
    /\ pending(chains) >= 1


\* a tick whose body runs is taken
FrameStep == last'.op = "tick" /\ last'.arg.ran /\ vars' /= vars

\* C21: after every tick whose body runs the surface has the native width
\* and height of the media; the tick resizes the surface when the two
\* differed before it, and only then.
C21_SurfaceMatchesMedia ==
    [][FrameStep =>
          /\ canvas'.w = video'.w /\ canvas'.h = video'.h
          /\ last'.arg.resized = (canvas.w /= video.w \/ canvas.h /= video.h)]_vars

\* a tick's body ran on a surface that already had the size of the media, and
\* did not resize it
C21_Witness ==
    /\ BodyRan /\ ~last.arg.resized
    /\ canvas.w = video.w /\ canvas.h = video.h
    /\ canvas.drawn


\* a file has just been chosen or the text of the link field changed
SourceSelected ==
    \/ last.op = "selectFile" /\ last.arg /= Null
    \/ last.op = "enterUrl"

\* C22: after a new source selection there is no result, and no object URL
\* that an earlier result held is still allocated.
C22_SelectionLeavesNoResult ==
    SourceSelected => resultVideo = Null /\ live = { }

\* a source has just been selected after an earlier result, made from a file,
\* was reset
C22_Witness ==
    /\ SourceSelected
    /\ mounted /\ runs >= 1
    /\ created >= 1
    /\ revokes /= EmptyBag


\* C23: the surface a tick produces does not depend on the order in which the
\* zones are composited: with one zone moved to the front of the catalog
\* (grain at the same offsets) the surface is the one of the catalog order.
C23_OrderIrrelevant == probe.i > 0 => probe.reordered = probe.surface


\* C24: every zone of every catalog has its fractions (here in hundredths)
\* between 0 and 1, with x + w <= 1 and y + h <= 1, and its pixel rectangle
\* lies inside the frame, whatever the frame size.
C24_ZonesInsideFrame ==
    probe.i > 0 =>
        LET z == zones(probe.v)[probe.i]
        IN  /\ \A f \in { z.x, z.y, z.w, z.h } : 0 <= f /\ f <= 100
            /\ z.x + z.w <= 100
            /\ z.y + z.h <= 100
            /\ InsideFrame(zoneRect(z, probe.W, probe.H), probe.W, probe.H)

\* a zone that ends one hundredth short of the right edge was taken on a
\* frame that is not square
C24_Witness ==
    /\ probe.i > 0
    /\ zones(probe.v)[probe.i].x + zones(probe.v)[probe.i].w = 99
    /\ probe.W /= probe.H


\* the steps of a staged sequence: the click that starts it and its continuations
SequenceOps == { "process", "timer", "collab", "interval" }

\* the surface that was there is still there, with another size or content
SurfaceChanged == canvas /= NoCanvas /\ canvas' /= NoCanvas /\ canvas' /= canvas

\* a frame-loop tick is taken
TickStep == last'.op = "tick" /\ vars' /= vars

\* C25 (as stated): progress and status are changed by no action other than
\* a step of the staged sequence, the surface by no action other than a run
\* of processFrame (a tick, or the play handler's call), and a tick leaves
\* every field of the session unchanged.
C25_SingleWriter ==
    [][/\ last'.op \notin SequenceOps => UNCHANGED << progress, statusMessage >>
       /\ SurfaceChanged => last'.op \in { "tick", "play" }
       /\ TickStep => UNCHANGED sessionVars]_vars

\* C25 (amended): progress is changed by no action other than a step of the
\* staged sequence and reset, status by no action other than a step of the
\* staged sequence, the surface by no action other than a run of processFrame,
\* and a tick leaves every field of the session unchanged.
C25_WritersOfSharedState ==
    [][/\ last'.op \notin SequenceOps \cup { "reset" } => UNCHANGED progress
       /\ last'.op \notin SequenceOps => UNCHANGED statusMessage
       /\ SurfaceChanged => last'.op \in { "tick", "play" }
       /\ TickStep => UNCHANGED sessionVars]_vars

\* reset has just put the progress of a completed sequence back to 0
C25_Witness ==
    /\ last.op = "reset"
    /\ mounted /\ runs >= 1
    /\ progress = 0
    /\ variant \in { "app1", "app4", "part0", "part2b" }


\* C26: the progress is an integer from 0 to 100 in every reachable state,
\* under each way of writing it: the fixed stage targets, the loop of
\* floor(i / 20 * 100), the interval that interpolates between the targets.
C26_ProgressInRange == progress \in 0..100

\* the interval has just written a floored value between two stage targets
C26_Witness ==
    /\ last.op = "interval"
    /\ mounted /\ isProcessing
    /\ progress = 31


\* C27: at most one tick of the frame loop is pending at any time; a play
\* event that arrives while the chain is already scheduled (a resume after a
\* pause) starts no second chain.
C27_OneTickPending == pending(chains) <= 1


\* C28: every object URL is released at most once: the release made by reset
\* and the release made by the effect cleanup (when the result changes or the
\* component is torn down) are never both applied to the same URL.
C28_ReleasedAtMostOnce ==
    \A u \in Allocated : CopiesIn(u, revokes) <= 1


\* C29: the session never holds a result and an error together: in every
\* reachable state, a result present implies no error.
C29_ResultExcludesError == resultVideo /= Null => error = Null


\* C30: on a 1920 x 1080 frame, for every zone of the catalog, no rectangle
\* the zone is sampled from intersects the zone's own rectangle.
C30_SourceAvoidsTarget ==
    (probe.i > 0 /\ probe.W = 1920 /\ probe.H = 1080) =>
        \A j \in DOMAIN probe.src :
            ~Intersects(probe.src[j],
                        zoneRect(zones(probe.v)[probe.i], probe.W, probe.H))

=========================================================================
